---- MODULE Spec2Model ----
(***************************************************************************)
(* ParameterGrid (src/model_selection.py): construction of the normalized  *)
(* grids from a parameter grid, lazy iteration over the points of the      *)
(* grid, the number of points, and access to a point by its index.         *)
(***************************************************************************)
EXTENDS Integers, Sequences, FiniteSets, TLC

VARIABLES
    param_grid,   \* the argument handed to ParameterGrid(...)
    pc,           \* "start" before __init__ ran, then "constructed" or "failed"
    err,          \* the exception __init__ raised, "none" if it returned
    items,        \* self.items: one [keys, values] per grid
    its,          \* the iterators made by iter(grid), by iterator id
    gen,          \* the generator made by grid[ind]
    len_result    \* what the last len(grid) returned, -1 before any call

vars == <<param_grid, pc, err, items, its, gen, len_result>>

----------------------------------------------------------------------------
(* Python values. Every value is a record of one shape: kind says which    *)
(* fields matter. An int carries n; a str carries its length n; a list     *)
(* carries its elements; a dict carries its entries in insertion order.    *)

IntV(n) == [kind |-> "int", n |-> n, elems |-> <<>>, sub |-> <<>>]

StrV(n) == [kind |-> "str", n |-> n, elems |-> <<>>, sub |-> <<>>]

ListV(es) == [kind |-> "list", n |-> 0, elems |-> es, sub |-> <<>>]

DictV(entries) == [kind |-> "dict", n |-> 0, elems |-> <<>>, sub |-> entries]

Entry(k, v) == [key |-> k, val |-> v]

NoneV == [kind |-> "none", n |-> 0, elems |-> <<>>, sub |-> <<>>]

----------------------------------------------------------------------------
(* Bounds of the inputs.                                                    *)

\* longest value list of a parameter
MaxLen == 2

\* most elements of a parameter grid given as a list
MaxGrids == 2

\* keys of a mapping
Keys == {"a", "b"}

\* the value list [1, ..., n]
ValueList(n) == ListV([i \in 1..n |-> IntV(i)])

\* the key orders of a mapping: the sequences of distinct keys
KeySeqs ==
    { s \in UNION { [1..m -> Keys] : m \in 0..Cardinality(Keys) } :
        \A i, j \in 1..Len(s) : i # j => s[i] # s[j] }

\* the mappings with the keys ks, in that order, and values from vs
DictsOver(ks, vs) ==
    { DictV([i \in 1..Len(ks) |-> Entry(ks[i], f[i])]) : f \in [1..Len(ks) -> vs] }

DictsOf(vs) == UNION { DictsOver(ks, vs) : ks \in KeySeqs }

\* what a key of a grid may map to, besides a nested mapping: a value list
\* (the empty one too), or something that is neither a mapping nor a list
LeafValues == { ValueList(n) : n \in 0..MaxLen } \cup {IntV(7), StrV(2)}

\* grids without nesting, the empty mapping and the malformed ones included
FlatGrids == DictsOf(LeafValues)

\* grids with one level of nesting; two nested mappings side by side have
\* at most one key each
NestedGrids ==
    { g \in DictsOf(LeafValues \cup FlatGrids) :
        \A i, j \in 1..Len(g.sub) :
            (i # j /\ g.sub[i].val.kind = "dict" /\ g.sub[j].val.kind = "dict")
                => Len(g.sub[i].val.sub) <= 1 }

\* grids of at most one key, and grids of the two keys in one order
OneKeyGrids == { g \in FlatGrids : Len(g.sub) <= 1 }

TwoKeyGrids == { g \in FlatGrids : Len(g.sub) = 2 /\ g.sub[1].key = "a" }

\* what is no mapping: a number, a string, the empty string, a list, the
\* empty list
NonMappings == {IntV(7), StrV(2), StrV(0), ListV(<<IntV(1)>>), ListV(<<>>)}

SeqsUpTo(S, n) == UNION { [1..m -> S] : m \in 0..n }

\* parameter grids given as a list: up to MaxGrids elements that are small
\* grids or no mappings at all, and the pairs of grids of two keys
ListGrids ==
    { ListV(s) : s \in SeqsUpTo(OneKeyGrids \cup NonMappings, MaxGrids) }
    \cup { ListV(<<g1, g2>>) : g1 \in TwoKeyGrids, g2 \in TwoKeyGrids }

\* the parameter grids handed to the constructor
AllInputs == NestedGrids \cup ListGrids \cup {IntV(7), StrV(2)}

----------------------------------------------------------------------------
(* extract_items                                                            *)

\* the outcome of a traversal: the exception raised, or the keys and values
\* collected so far
Acc(e, ks, vs) == [err |-> e, keys |-> ks, values |-> vs]

Raise(e) == Acc(e, <<>>, <<>>)

RECURSIVE traverse_dict(_, _, _)
RECURSIVE traverse_entries(_, _, _, _)

\* traverse_entry with "keys.append([key])": the path loses the keys above
traverse_entry_no_prefix(current_keys, key, value, acc) ==
    IF value.kind = "dict"
    THEN traverse_dict(current_keys \o <<key>>, value, acc)
    ELSE IF value.kind = "list"
    THEN IF Len(value.elems) = 0
         THEN Raise("ValueError")
         ELSE Acc("none", Append(acc.keys, <<key>>), Append(acc.values, value.elems))
    ELSE Raise("TypeError")

\* traverse_entry without the check of an empty value list
traverse_entry_no_empty_check(current_keys, key, value, acc) ==
    IF value.kind = "dict"
    THEN traverse_dict(current_keys \o <<key>>, value, acc)
    ELSE IF value.kind = "list"
    THEN Acc("none", Append(acc.keys, current_keys \o <<key>>),
                     Append(acc.values, value.elems))
    ELSE Raise("TypeError")

\* one turn of "for key, value in current_dict.items()"
traverse_entry(current_keys, key, value, acc) ==
    IF value.kind = "dict"
    THEN traverse_dict(current_keys \o <<key>>, value, acc)
    ELSE IF value.kind = "list"
    THEN IF Len(value.elems) = 0
         THEN Raise("ValueError")
         ELSE Acc("none", Append(acc.keys, current_keys \o <<key>>),
                          Append(acc.values, value.elems))
    ELSE Raise("TypeError")

\* the loop over the entries from the i-th on; an exception ends it
traverse_entries(current_keys, entries, i, acc) ==
    IF acc.err # "none" \/ i > Len(entries)
    THEN acc
    ELSE traverse_entries(current_keys, entries, i + 1,
             traverse_entry(current_keys, entries[i].key, entries[i].val, acc))

\* len(current_dict) raises TypeError on a number; current_dict.items()
\* raises AttributeError on a string or a list
traverse_dict(current_keys, current_dict, acc) ==
    IF current_dict.kind \notin {"dict", "list", "str"}
    THEN Raise("TypeError")
    ELSE IF (CASE current_dict.kind = "dict" -> Len(current_dict.sub)
               [] current_dict.kind = "list" -> Len(current_dict.elems)
               [] current_dict.kind = "str" -> current_dict.n) = 0
    THEN Raise("ValueError")
    ELSE IF current_dict.kind # "dict"
    THEN Raise("AttributeError")
    ELSE traverse_entries(current_keys, current_dict.sub, 1, acc)

extract_items(grid) == traverse_dict(<<>>, grid, Acc("none", <<>>, <<>>))

----------------------------------------------------------------------------
(* __init__                                                                 *)

RECURSIVE map_extract_items(_, _, _)
\* list(map(self.extract_items, param_grid)): the first exception ends it
map_extract_items(grids, i, done) ==
    IF i > Len(grids)
    THEN [err |-> "none", items |-> done]
    ELSE LET r == extract_items(grids[i])
         IN IF r.err # "none"
            THEN [err |-> r.err, items |-> <<>>]
            ELSE map_extract_items(grids, i + 1,
                     Append(done, [keys |-> r.keys, values |-> r.values]))

init(p) ==
    IF p.kind \notin {"dict", "list"}
    THEN [err |-> "TypeError", items |-> <<>>]
    ELSE map_extract_items(IF p.kind = "dict" THEN <<p>> ELSE p.elems, 1, <<>>)

----------------------------------------------------------------------------
(* generate_params                                                          *)

\* the position of key k among the entries, 0 if it is not there
RECURSIVE IndexOfKey(_, _, _)
IndexOfKey(entries, k, i) ==
    IF i > Len(entries) THEN 0
    ELSE IF entries[i].key = k THEN i
    ELSE IndexOfKey(entries, k, i + 1)

\* current_dict[k] = v: in place if k is a key already, appended otherwise
SetItem(entries, k, v) ==
    LET i == IndexOfKey(entries, k, 1)
    IN IF i = 0 THEN Append(entries, Entry(k, v))
       ELSE [entries EXCEPT ![i] = Entry(k, v)]

\* the walk down key_list[:-1], making the missing mappings, then the
\* assignment at key_list[-1]
RECURSIVE SetPath(_, _, _)
SetPath(entries, key_list, v) ==
    IF Len(key_list) = 1
    THEN SetItem(entries, key_list[1], v)
    ELSE LET k == key_list[1]
             with_k == IF IndexOfKey(entries, k, 1) = 0
                       THEN Append(entries, Entry(k, DictV(<<>>)))
                       ELSE entries
             i == IndexOfKey(with_k, k, 1)
         IN [with_k EXCEPT ![i] =
                Entry(k, DictV(SetPath(with_k[i].val.sub, Tail(key_list), v)))]

Min(a, b) == IF a <= b THEN a ELSE b

RECURSIVE generate_entries(_, _, _, _)
\* the loop over zip(keys, values) from the i-th pair on
generate_entries(keys, values, i, params) ==
    IF i > Min(Len(keys), Len(values))
    THEN params
    ELSE generate_entries(keys, values, i + 1, SetPath(params, keys[i], values[i]))

generate_params(keys, values) == DictV(generate_entries(keys, values, 1, <<>>))

----------------------------------------------------------------------------
(* itertools.product, __iter__                                              *)

\* ProductStep with the loops exchanged: "for y in pool for x in result"
ProductStepPoolOutside(result, pool) ==
    [m \in 1..(Len(result) * Len(pool)) |->
        Append(result[((m - 1) % Len(result)) + 1], pool[((m - 1) \div Len(result)) + 1])]

\* [x + [y] for x in result for y in pool]
ProductStep(result, pool) ==
    [m \in 1..(Len(result) * Len(pool)) |->
        Append(result[((m - 1) \div Len(pool)) + 1], pool[((m - 1) % Len(pool)) + 1])]

RECURSIVE product_from(_, _, _)
product_from(pools, i, result) ==
    IF i > Len(pools) THEN result
    ELSE product_from(pools, i + 1, ProductStep(result, pools[i]))

\* product(*values): the tuples in the order they are yielded
product(pools) == product_from(pools, 1, << <<>> >>)

\* where the next value tuple comes from: the grid g and the number j of
\* tuples already taken from it, moving on to the next grid when the
\* product of grid g is used up; g beyond the last grid ends the pass
RECURSIVE IterSeek(_, _, _)
IterSeek(its_items, g, j) ==
    IF g > Len(its_items) THEN [g |-> g, j |-> 0]
    ELSE IF g >= 1 /\ j < Len(product(its_items[g].values)) THEN [g |-> g, j |-> j]
    ELSE IterSeek(its_items, g + 1, 0)

NoIter == [st |-> "none", g |-> 0, j |-> 0, count |-> 0, last |-> NoneV]

\* iter(grid): a generator that has not run yet
iter_start == [st |-> "live", g |-> 0, j |-> 0, count |-> 0, last |-> NoneV]

\* next(it): the generator runs to its next yield, or to its end
iter_next(its_items, it) ==
    LET at == IterSeek(its_items, it.g, it.j)
    IN IF at.g > Len(its_items)
       THEN [it EXCEPT !.st = "done", !.g = at.g, !.j = 0]
       ELSE [st |-> "live", g |-> at.g, j |-> at.j + 1, count |-> it.count + 1,
             last |-> generate_params(its_items[at.g].keys,
                                      product(its_items[at.g].values)[at.j + 1])]

----------------------------------------------------------------------------
(* __len__                                                                  *)

RECURSIVE reduce_mul(_)
\* reduce(operator.mul, s), s not empty
reduce_mul(s) ==
    IF Len(s) = 1 THEN s[1]
    ELSE reduce_mul(SubSeq(s, 1, Len(s) - 1)) * s[Len(s)]

RECURSIVE sum(_)
sum(s) == IF Len(s) = 0 THEN 0 ELSE s[1] + sum(Tail(s))

Ways(values) == [i \in 1..Len(values) |-> Len(values[i])]

\* self.product(len(value_list) for value_list in values)
subtotal_of(values) == reduce_mul(Ways(values))

\* len with the number of value lists of a grid taken for its size
len_of_paths(its_items) == sum([g \in 1..Len(its_items) |-> Len(its_items[g].values)])

len(its_items) == sum([g \in 1..Len(its_items) |-> subtotal_of(its_items[g].values)])

----------------------------------------------------------------------------
(* __getitem__                                                              *)

RECURSIVE decompose_forward(_, _, _, _)
\* decompose with "for i in range(size)": the first digit taken first
decompose_forward(values, i, ind, value_list) ==
    IF i < 1 THEN [value_list |-> value_list, ind |-> ind]
    ELSE LET p == Len(values) - i + 1
         IN decompose_forward(values, i - 1, ind \div Len(values[p]),
                [value_list EXCEPT ![p] = values[p][(ind % Len(values[p])) + 1]])

RECURSIVE decompose(_, _, _, _)
\* for i in reversed(range(size)): the value of each digit, and what is
\* left of ind
decompose(values, i, ind, value_list) ==
    IF i < 1 THEN [value_list |-> value_list, ind |-> ind]
    ELSE decompose(values, i - 1, ind \div Len(values[i]),
             [value_list EXCEPT ![i] = values[i][(ind % Len(values[i])) + 1]])

RECURSIVE getitem_loop(_, _, _)
\* "for keys, values in self.items" from the k-th grid on, with the local
\* ind: to the next yield, or to the end of the loop
getitem_loop(its_items, k, ind) ==
    IF k > Len(its_items)
    THEN [st |-> "done", k |-> k, ind |-> ind, yielded |-> <<>>]
    ELSE IF ind >= subtotal_of(its_items[k].values)
    THEN getitem_loop(its_items, k + 1, ind - subtotal_of(its_items[k].values))
    ELSE LET values == its_items[k].values
             d == decompose(values, Len(values), ind, [i \in 1..Len(values) |-> NoneV])
         IN [st |-> "suspended", k |-> k + 1, ind |-> d.ind,
             yielded |-> <<generate_params(its_items[k].keys, d.value_list)>>]

NoGen == [st |-> "none", arg |-> NoneV, ind |-> 0, k |-> 0, err |-> "none", out |-> <<>>]

\* grid[ind]: the body holds a yield, so the call runs nothing of it and
\* hands back a generator
getitem(arg) == [st |-> "created", arg |-> arg, ind |-> 0, k |-> 0, err |-> "none", out |-> <<>>]

\* the body from its first line to the first yield
getitem_first(its_items, g) ==
    IF g.arg.kind # "int"
    THEN [g EXCEPT !.st = "raised", !.err = "TypeError"]
    ELSE LET total == len(its_items)
             ind == IF g.arg.n < 0 THEN g.arg.n + total ELSE g.arg.n
         IN IF ind >= total
            THEN [g EXCEPT !.st = "raised", !.err = "IndexError"]
            ELSE LET r == getitem_loop(its_items, 1, ind)
                 IN [g EXCEPT !.st = r.st, !.k = r.k, !.ind = r.ind,
                              !.out = g.out \o r.yielded]

\* next(gen): from the start, or on from the last yield
getitem_next(its_items, g) ==
    IF g.st = "created"
    THEN getitem_first(its_items, g)
    ELSE LET r == getitem_loop(its_items, g.k, g.ind)
         IN [g EXCEPT !.st = r.st, !.k = r.k, !.ind = r.ind,
                      !.out = g.out \o r.yielded]

----------------------------------------------------------------------------
(* The operations                                                           *)

IterIds == {1, 2}

\* how far beyond the valid indices the indices tried reach
IndexSlack == 2

InitWith(inputs) ==
    /\ param_grid \in inputs
    /\ pc = "start"
    /\ err = "none"
    /\ items = <<>>
    /\ its = [i \in IterIds |-> NoIter]
    /\ gen = NoGen
    /\ len_result = -1

Construct ==
    /\ pc = "start"
    /\ LET r == init(param_grid)
       IN /\ err' = r.err
          /\ items' = r.items
          /\ pc' = IF r.err = "none" THEN "constructed" ELSE "failed"
    /\ UNCHANGED <<param_grid, its, gen, len_result>>

Length ==
    /\ pc = "constructed"
    /\ len_result' = len(items)
    /\ UNCHANGED <<param_grid, pc, err, items, its, gen>>

Iter(i) ==
    /\ pc = "constructed"
    /\ its' = [its EXCEPT ![i] = iter_start]
    /\ UNCHANGED <<param_grid, pc, err, items, gen, len_result>>

\* IterNext with the grids handed out once only: a pass that ends leaves
\* self.items used up, as a bare map object would be
IterNextUsingUp(i) ==
    /\ pc = "constructed"
    /\ its[i].st = "live"
    /\ its' = [its EXCEPT ![i] = iter_next(items, its[i])]
    /\ items' = IF its'[i].st = "done" THEN <<>> ELSE items
    /\ UNCHANGED <<param_grid, pc, err, gen, len_result>>

IterNext(i) ==
    /\ pc = "constructed"
    /\ its[i].st = "live"
    /\ its' = [its EXCEPT ![i] = iter_next(items, its[i])]
    /\ UNCHANGED <<param_grid, pc, err, items, gen, len_result>>

IndexArgs ==
    { IntV(n) : n \in (0 - len(items) - IndexSlack)..(len(items) + IndexSlack - 1) }
    \cup {StrV(1)}

GetItem(arg) ==
    /\ pc = "constructed"
    /\ gen' = getitem(arg)
    /\ UNCHANGED <<param_grid, pc, err, items, its, len_result>>

GetItemNext ==
    /\ pc = "constructed"
    /\ gen.st \in {"created", "suspended"}
    /\ gen' = getitem_next(items, gen)
    /\ UNCHANGED <<param_grid, pc, err, items, its, len_result>>

----------------------------------------------------------------------------
(* The specifications                                                       *)

\* the parameter grids the constructor accepts
ValidInputs == { p \in AllInputs : init(p).err = "none" }

\* construction, of every parameter grid
InitConstruct == InitWith(AllInputs)

NextConstruct == Construct

SpecConstruct == InitConstruct /\ [][NextConstruct]_vars

\* indexing
InitValid == InitWith(ValidInputs)

NextGetItem == Construct \/ (\E arg \in IndexArgs : GetItem(arg)) \/ GetItemNext

SpecGetItem == InitValid /\ [][NextGetItem]_vars

\* iteration passes, two of them at a time, and the length
NextIter == Construct \/ Length \/ (\E i \in IterIds : Iter(i)) \/ (\E i \in IterIds : IterNext(i))

SpecIter == InitValid /\ [][NextIter]_vars

\* most points of a grid under every operation at once
MaxTotal == 3

\* the grids of at most MaxTotal points whose paths are made of the key "a"
SmallInputs ==
    { p \in ValidInputs :
        /\ len(init(p).items) <= MaxTotal
        /\ \A g \in 1..Len(init(p).items) :
             \A i \in 1..Len(init(p).items[g].keys) :
                \A j \in 1..Len(init(p).items[g].keys[i]) :
                    init(p).items[g].keys[i][j] = "a" }

\* every operation, in any order
Init == InitWith(SmallInputs)

Next ==
    \/ Construct
    \/ Length
    \/ \E i \in IterIds : Iter(i)
    \/ \E i \in IterIds : IterNext(i)
    \/ \E arg \in IndexArgs : GetItem(arg)
    \/ GetItemNext

Spec == Init /\ [][Next]_vars

----------------------------------------------------------------------------
(* What the claims speak of                                                 *)

\* the grids of a parameter grid: the mapping itself, or the elements
GridsOf(p) == IF p.kind = "dict" THEN <<p>> ELSE p.elems

\* a mapping, or a list of mappings
IsGridSpec(p) ==
    \/ p.kind = "dict"
    \/ p.kind = "list" /\ \A i \in 1..Len(p.elems) : p.elems[i].kind = "dict"

RECURSIVE Concat(_)
Concat(ss) == IF Len(ss) = 0 THEN <<>> ELSE ss[1] \o Concat(Tail(ss))

\* what is wrong with a grid, in depth-first insertion order
RECURSIVE Defects(_)
Defects(d) ==
    IF Len(d.sub) = 0 THEN <<"empty mapping">>
    ELSE Concat([i \in 1..Len(d.sub) |->
             LET v == d.sub[i].val
             IN IF v.kind = "dict" THEN Defects(v)
                ELSE IF v.kind = "list"
                THEN IF Len(v.elems) = 0 THEN <<"empty list">> ELSE <<>>
                ELSE <<"other value">>])

DefectsOfSpec(p) == Concat([i \in 1..Len(GridsOf(p)) |-> Defects(GridsOf(p)[i])])

\* the paths to the value lists of a valid grid, depth first: the paths
\* below a key, each with the key put in front, key after key
RECURSIVE Paths(_)
Paths(d) ==
    Concat([i \in 1..Len(d.sub) |->
        LET e == d.sub[i]
        IN IF e.val.kind = "dict"
           THEN [q \in 1..Len(Paths(e.val)) |-> <<e.key>> \o Paths(e.val)[q]]
           ELSE << <<e.key>> >>])

\* d[path[1]][path[2]]..., NoneV where a key is missing
RECURSIVE Lookup(_, _)
Lookup(d, path) ==
    IF Len(path) = 0 THEN d
    ELSE LET i == IndexOfKey(d.sub, path[1], 1)
         IN IF i = 0 THEN NoneV ELSE Lookup(d.sub[i].val, Tail(path))

\* the error kinds of the constructor: of an input that is no grid
\* specification, and of an empty grid
InvalidGridSpecError == init(IntV(7)).err

InvalidGridError == init(DictV(<<>>)).err

C8_SpecErrorKind ==
    (pc # "start" /\ ~IsGridSpec(param_grid))
        => (pc = "failed" /\ err = InvalidGridSpecError)

\* C9: the normalized form of every grid has as many paths as value lists, no
\* value list is empty, the paths are those of the grid in depth-first
\* insertion order, and each value list is the one found at its path.
C9_NormalizedDepthFirst ==
    pc = "constructed" =>
        /\ Len(items) = Len(GridsOf(param_grid))
        /\ \A g \in 1..Len(items) :
            /\ Len(items[g].keys) = Len(items[g].values)
            /\ items[g].keys = Paths(GridsOf(param_grid)[g])
            /\ \A i \in 1..Len(items[g].values) :
                /\ Len(items[g].values[i]) >= 1
                /\ ListV(items[g].values[i]) = Lookup(GridsOf(param_grid)[g], items[g].keys[i])

\* a nested mapping of two value lists, then its sibling key
C9_Witness ==
    /\ pc = "constructed"
    /\ Len(items) = 1
    /\ items[1].keys = << <<"b", "b">>, <<"b", "a">>, <<"a">> >>
    /\ Len(items[1].values[1]) = 1
    /\ Len(items[1].values[2]) = 2
    /\ Len(items[1].values[3]) = 2

\* the points of a pass of iteration over the grids, in the order next()
\* hands them out
RECURSIVE PointsFrom(_, _)
PointsFrom(its_items, it) ==
    LET nxt == iter_next(its_items, it)
    IN IF nxt.st = "done" THEN <<>>
       ELSE <<nxt.last>> \o PointsFrom(its_items, nxt)

ListOfIter(its_items) == PointsFrom(its_items, iter_start)

\* the product of the lengths of the value lists from the i-th on
RECURSIVE SizeFrom(_, _)
SizeFrom(values, i) ==
    IF i > Len(values) THEN 1 ELSE Len(values[i]) * SizeFrom(values, i + 1)

RECURSIVE TotalFrom(_, _)
TotalFrom(its_items, g) ==
    IF g > Len(its_items) THEN 0
    ELSE SizeFrom(its_items[g].values, 1) + TotalFrom(its_items, g + 1)

\* the sum over the grids of the product of the lengths of their value lists
Total == TotalFrom(items, 1)

\* the grid that owns position k (from 0) of the concatenation, and the
\* position r inside that grid
RECURSIVE OwnerFrom(_, _, _)
OwnerFrom(its_items, g, k) ==
    IF k < SizeFrom(its_items[g].values, 1) THEN [g |-> g, r |-> k]
    ELSE OwnerFrom(its_items, g + 1, k - SizeFrom(its_items[g].values, 1))

\* the digit of path i at position r of a grid: the last path is the fastest
Digit(values, i, r) == (r \div SizeFrom(values, i + 1)) % Len(values[i])

\* the number of values of a point that are no mappings
RECURSIVE LeafCount(_)
LeafCount(d) ==
    IF d.kind # "dict" THEN 1
    ELSE sum([i \in 1..Len(d.sub) |-> LeafCount(d.sub[i].val)])

\* point is the mixed-radix point at position k (from 0) of the whole space
IsPointAt(point, k) ==
    LET o == OwnerFrom(items, 1, k)
        keys == items[o.g].keys
        values == items[o.g].values
    IN /\ LeafCount(point) = Len(keys)
       /\ \A i \in 1..Len(keys) :
            Lookup(point, keys[i]) = values[i][Digit(values, i, o.r) + 1]

IndexInRange == gen.arg.kind = "int" /\ 0 - Total <= gen.arg.n /\ gen.arg.n < Total

IndexOutOfRange == gen.arg.kind = "int" /\ (gen.arg.n >= Total \/ gen.arg.n < 0 - Total)

\* the generator of grid[ind] has been run: it yielded, ended or raised
GenRan == gen.st \in {"suspended", "done", "raised"}

C2_ExactlyOnePoint ==
    (pc = "constructed" /\ IndexInRange)
        => /\ Len(gen.out) <= 1
           /\ gen.st = "done" => Len(gen.out) = 1

\* C3: for an index at or beyond total, or below -total, grid[ind] fails
\* with IndexError and produces no point.
C3_OutOfRangeRaises ==
    (pc = "constructed" /\ GenRan /\ IndexOutOfRange)
        => (gen.st = "raised" /\ gen.err = "IndexError" /\ Len(gen.out) = 0)

\* C6: an index error is raised by the call grid[ind] itself: the call hands
\* back a result only for an integer index in range, never one whose later
\* consumption raises the error.
C6_RaisedByTheCall ==
    (pc = "constructed" /\ gen.st = "created") => IndexInRange

\* C4: len(grid) is the sum over the grids of the product of the lengths of
\* their value lists, and a pass of iteration that has ended has produced
\* that many points.
C4_LenIsCountOfPass ==
    pc = "constructed" =>
        /\ len_result # -1 => len_result = Total
        /\ \A i \in IterIds :
            /\ its[i].count <= Total
            /\ its[i].st = "done" => its[i].count = Total
            /\ (its[i].st = "done" /\ len_result # -1) => its[i].count = len_result

\* a pass over two grids that has ended, after len(grid)
C4_Witness ==
    /\ pc = "constructed"
    /\ Len(items) = 2
    /\ Len(items[1].keys) = 2
    /\ its[1].st = "done"
    /\ its[1].count >= 5
    /\ len_result = its[1].count

\* C5: the k-th point of a pass is the point at position k of the grids'
\* spaces put one after the other in the order of the grids, each space in
\* mixed-radix order, the last path the fastest; equal points of different
\* grids are all produced.
C5_MixedRadixOrder ==
    pc = "constructed" =>
        \A i \in IterIds :
            /\ its[i].count <= Total
            /\ its[i].st = "done" => its[i].count = Total
            /\ its[i].count >= 1 => IsPointAt(its[i].last, its[i].count - 1)

\* the second of two equal grids of two value lists each: a point the first
\* grid produced already, with the first digit moved on and the last back
C5_Witness ==
    /\ pc = "constructed"
    /\ Len(items) = 2
    /\ items[1] = items[2]
    /\ Len(items[1].values) = 2
    /\ Len(items[1].values[1]) = 2
    /\ Len(items[1].values[2]) = 2
    /\ its[1].st = "live"
    /\ its[1].count = 7
    /\ its[1].last = ListOfIter(items)[3]
    /\ Lookup(its[1].last, items[2].keys[1]) = IntV(2)
    /\ Lookup(its[1].last, items[2].keys[2]) = IntV(1)

\* C10: whatever operations ran, the normalized grids are those construction
\* stored, and every pass of iteration produces, point after point, the
\* sequence a first pass produces, and ends after its last point.
C10_GridUnchangedPassesAgree ==
    pc = "constructed" =>
        /\ items = init(param_grid).items
        /\ \A i \in IterIds :
            LET first_pass == ListOfIter(init(param_grid).items)
            IN /\ its[i].count <= Len(first_pass)
               /\ its[i].count >= 1 => its[i].last = first_pass[its[i].count]
               /\ its[i].st = "done" => its[i].count = Len(first_pass)

\* a pass started anew after a pass that ended, another pass left part-way
\* between the two, with len(grid) and grid[ind] called and run
C10_Witness ==
    /\ pc = "constructed"
    /\ its[1].st = "done"
    /\ its[1].count = 3
    /\ its[2].st = "live"
    /\ its[2].count = 2
    /\ gen.st = "suspended"
    /\ len_result = 3

====
